---- MODULE Spec2Model ----
(***************************************************************************)
(* Browser session lifecycle of mcp_browser_tool: the BrowserTool class    *)
(* (browser_tool.py) driven by the tool handlers of main.py.               *)
(*                                                                         *)
(* The handlers are asyncio coroutines: a task runs without interruption   *)
(* from one await of an external browser operation to the next, and tasks  *)
(* interleave only at those awaits.  One action of this module is one such *)
(* uninterrupted run: a tool call starting, or an awaited operation        *)
(* returning (or raising) to the task that awaits it.                      *)
(***************************************************************************)
EXTENDS Integers, Sequences, FiniteSets, TLC

\* ---------------------------------------------------------------- bounds
NumTasks == 3     \* tool calls that may be in flight at once
MaxCalls == 3     \* tool calls issued in one run
MaxInst  == 2     \* BrowserTool objects constructed in one run
LiveCalls == 2    \* tool calls issued in one run of FairSpec
LlmCalls == 2     \* tool calls issued in one run of LlmSpec
MaxEntries == 2   \* entries in a backend results array
MaxLen == 4       \* characters in a text given to the whitespace clean-up
Slack == 2        \* text lengths tried on either side of the summarize limit

Tasks == 1..NumTasks
Insts == 1..MaxInst

\* ------------------------------------------------------------ constants
NoInst == 0                     \* _browser_tool_instance = None
NoUrl  == "None"                \* url = None
Urls   == {"http://a"}
Raised == -1                    \* page.goto raised
NullResponse == 0               \* page.goto returned None
Statuses == {200, 404}
GotoOutcomes == Statuses \cup {NullResponse, Raised}
NotIssued == -2                 \* the call has issued no page load
NoPage == -3                    \* self.page was None when the load was issued
DefaultWait == 10               \* wait_time: int = 10
WaitTimes == {1, DefaultWait}
Selector == "#s"                \* the wait_for_element of a call that gives one

\* What the environment holds for the model path when BrowserTool() runs.
ModelPaths == {"unset", "missing", "unloadable", "loadable"}

\* What the page's markup holds when web_search reads it.
Bodies == {"no_pre", "bad_json", "no_results", "results"}

\* An entry of the backend's results array: each key holds a string or is
\* missing.
NoField == "<missing>"
Entries ==
  [title : {NoField, "", "T", "U"}, url : {NoField, "", "u"},
   content : {NoField, "c"}]
DefaultMax == 10                \* max_results: int = 10
Limit == 4000                   \* characters of text summarize() keeps
Marker == <<".", ".", ".">>     \* "..."
Prefix == "Summarize the following text concisely:\n\n"
Suffix == "\n\nSummary:"
Whitespace == {" ", "\t", "\n"}
Chars == {"a", "b"} \cup Whitespace

VARIABLES
  \* the process environment
  LLM,                     \* the model-path configuration, one of ModelPaths
  \* main.py
  _browser_tool_instance,  \* the global instance, NoInst when None
  created,                 \* BrowserTool objects constructed so far
  calls,                   \* tool calls issued so far
  \* BrowserTool fields, one per object
  playwright, browser, page, _initializing,
  llm,                     \* "engine", "None", or "undefined" (no attribute)
  \* one task per tool call in flight
  self,                    \* the BrowserTool object the call works on
  stack,                   \* its frames, innermost last
  pc,                      \* the await it is suspended at, "idle" or "done"
  outcome,                 \* how its last call ended
  ret,                     \* what its last call returned
  \* history
  starts, launches,        \* driver starts / browser launches issued since
                           \* _initializing was last set, per object
  loaded,                  \* a page load has returned a response, per object
  sinceClose,              \* close() has returned and no method was entered
                           \* since, per object
  held, released,          \* handles present when close() began, and the
                           \* release operations it has invoked, per task
  setupRet,                \* how _setup_browser() returned to the task:
                           \* "ready" (all handles present) or "unready"
  after,                   \* the task entered the first method after a close()
                           \* (setupRet then tells of that method)
  extFail,                 \* a browser operation the task's call issued failed
  \* history of the call's navigate(), kept while navigate() runs and when the
  \* call ends with it
  response,                \* what its page load gave: a status, NullResponse,
                           \* Raised, NoPage, or NotIssued
  waited,                  \* its element wait: "none", "found", "failed",
                           \* "no_page"
  timeout,                 \* the timeout that wait was issued with, in ms
  names,                   \* what the message of the call's fault names
  shown,                   \* per object: the task whose navigate() loaded the
                           \* document the page shows, 0 when no such task
  \* the pure steps taken on their own
  arg,                     \* the input of the step
  result                   \* its output, once the step is done

sessionVars == <<LLM, _browser_tool_instance, created, calls, playwright, browser,
          page, _initializing, llm, self, stack, pc, outcome, ret, starts, launches,
          loaded, sinceClose, held, released, setupRet, after, extFail,
          response, waited, timeout, names, shown>>

vars == <<sessionVars, arg, result>>

Frame(fn, url, wait) ==
  [fn |-> fn, url |-> url, wait |-> wait, wait_time |-> DefaultWait]
Top(s) == s[Len(s)]
Pop(s) == SubSeq(s, 1, Len(s) - 1)

(***************************************************************************)
(* The part of the state one uninterrupted run of task t on object i can   *)
(* read and write, as a record.                                            *)
(***************************************************************************)
Cfg(t, i) ==
  [me |-> t, gi |-> _browser_tool_instance,
   pw |-> playwright[i], br |-> browser[i], pg |-> page[i],
   init |-> _initializing[i], llm |-> llm[i],
   stack |-> stack[t], pc |-> pc[t], outcome |-> outcome[t], ret |-> ret[t],
   starts |-> starts[i], launches |-> launches[i], loaded |-> loaded[i],
   sinceClose |-> sinceClose[i],
   held |-> held[t], released |-> released[t], setupRet |-> setupRet[t],
   after |-> after[t], extFail |-> extFail[t],
   response |-> response[t], waited |-> waited[t], timeout |-> timeout[t],
   names |-> names[t], shown |-> shown[i]]

\* A finished call's record stands until the next step of any task: the step of
\* task t writes v for t and drops what finished tasks left.
Upd(f, t, v, blank) ==
  [u \in Tasks |-> IF u = t THEN v ELSE IF pc[u] = "done" THEN blank ELSE f[u]]

Gone(u, t) == u # 0 /\ u # t /\ pc[u] = "done"

Apply(t, i, c) ==
  /\ _browser_tool_instance' = c.gi
  /\ playwright' = [playwright EXCEPT ![i] = c.pw]
  /\ browser' = [browser EXCEPT ![i] = c.br]
  /\ page' = [page EXCEPT ![i] = c.pg]
  /\ _initializing' = [_initializing EXCEPT ![i] = c.init]
  /\ llm' = [llm EXCEPT ![i] = c.llm]
  /\ UNCHANGED <<LLM, arg, result>>
  /\ self' = Upd(self, t, i, NoInst)
  /\ stack' = Upd(stack, t, c.stack, <<>>)
  /\ pc' = Upd(pc, t, c.pc, "idle")
  /\ outcome' = Upd(outcome, t, c.outcome, "none")
  /\ ret' = Upd(ret, t, c.ret, <<>>)
  /\ starts' = [starts EXCEPT ![i] = c.starts]
  /\ launches' = [launches EXCEPT ![i] = c.launches]
  /\ loaded' = [loaded EXCEPT ![i] = c.loaded]
  /\ held' = Upd(held, t, c.held, {})
  /\ released' = Upd(released, t, c.released, <<>>)
  /\ sinceClose' = [sinceClose EXCEPT ![i] = c.sinceClose]
  /\ setupRet' = Upd(setupRet, t, c.setupRet, "none")
  /\ after' = Upd(after, t, c.after, FALSE)
  /\ extFail' = Upd(extFail, t, c.extFail, FALSE)
  /\ response' = Upd(response, t, c.response, NotIssued)
  /\ waited' = Upd(waited, t, c.waited, "none")
  /\ timeout' = Upd(timeout, t, c.timeout, 0)
  /\ names' = Upd(names, t, c.names, {})
  /\ shown' = [j \in Insts |->
                 LET v == IF j = i THEN c.shown ELSE shown[j]
                 IN  IF Gone(v, t) THEN 0 ELSE v]

Suspend(c, label) == [c EXCEPT !.pc = label]

\* An exception nobody on the stack catches ends the tool call.
Raise(c, fault) ==
  [c EXCEPT !.stack = <<c.stack[1]>>, !.pc = "done", !.outcome = fault]

RECURSIVE Return(_)
RECURSIVE CallMethod(_, _)

\* ------------------------------------------------------ BrowserTool.__init__
\* The llm attribute the constructor leaves.  No branch raises: a failing load
\* is caught.  With a path that does not exist no branch assigns the attribute.
Construct(cfg) ==
  CASE cfg = "unset" -> "None"
    [] cfg = "missing" -> "undefined"
    [] cfg = "unloadable" -> "None"
    [] cfg = "loadable" -> "engine"

\* ------------------------------------------------- BrowserTool._setup_browser
\* What a normal return of _setup_browser() leaves its caller with.
Observe(c) ==
  [c EXCEPT !.setupRet = IF c.pw /\ c.br /\ c.pg /\ @ # "unready"
                         THEN "ready" ELSE "unready"]

\* The cleanup step left out: the flag stays set.
SetupFinallyKeepsFlag(c, ok) ==
  IF ok THEN Return(Observe(c)) ELSE Raise(c, "InitFault")

SetupFinally(c, ok) ==
  LET d == [c EXCEPT !.init = FALSE]
  IN  IF ok THEN Return(Observe(d)) ELSE Raise(d, "InitFault")

SetupPage(c) ==
  IF ~c.pg THEN Suspend(c, "S_context") ELSE SetupFinally(c, TRUE)

SetupBrowser(c) ==
  IF ~c.br
  THEN Suspend([c EXCEPT !.launches = @ + 1], "S_launch")
  ELSE SetupPage(c)

SetupPlaywright(c) ==
  IF ~c.pw
  THEN Suspend([c EXCEPT !.starts = @ + 1], "S_start")
  ELSE SetupBrowser(c)

\* The guard left out: a caller that finds the flag set initializes too.
GuardOff(c) == FALSE

Guard(c) == c.init

\* The early return taken through the cleanup step: it clears the flag.
GuardReturnClearsFlag(c) == Return(Observe([c EXCEPT !.init = FALSE]))

\* "return" before the try: the flag is left as it is
GuardReturn(c) == Return(Observe(c))

SetupEnter(c) ==
  IF Guard(c)
  THEN GuardReturn(c)
  ELSE SetupPlaywright([c EXCEPT !.init = TRUE,
                                 !.starts = IF c.init THEN @ ELSE 0,
                                 !.launches = IF c.init THEN @ ELSE 0])

\* --------------------------------------------------------- BrowserTool.close
CloseExcept(c) ==
  Return([c EXCEPT !.pg = FALSE, !.br = FALSE, !.pw = FALSE])

CloseStop(c) ==
  IF c.pw
  THEN Suspend([c EXCEPT !.released = Append(@, "playwright")], "C_stop")
  ELSE Return(c)

CloseBrowser(c) ==
  IF c.br
  THEN Suspend([c EXCEPT !.released = Append(@, "browser")], "C_browser")
  ELSE CloseStop(c)

ClosePage(c) ==
  IF c.pg
  THEN Suspend([c EXCEPT !.released = Append(@, "page")], "C_page")
  ELSE CloseBrowser(c)

CloseEnter(c) ==
  ClosePage([c EXCEPT
    !.held = {h \in {"page", "browser", "playwright"} :
                \/ h = "page" /\ c.pg
                \/ h = "browser" /\ c.br
                \/ h = "playwright" /\ c.pw},
    !.released = <<>>])

\* ---------------------------------------------------- BrowserTool.web_search
WebSearchGoto(c) ==
  IF ~c.pg
  THEN Return([c EXCEPT !.ret = <<>>])      \* AttributeError, caught
  ELSE Suspend(c, "W_goto")

WebSearchContent(c) ==
  IF ~c.pg
  THEN Return([c EXCEPT !.ret = <<>>])      \* AttributeError, caught
  ELSE Suspend(c, "W_content")

\* search_results[:max_results]
PySlice(s, n) ==
  IF n >= 0
  THEN SubSeq(s, 1, IF n < Len(s) THEN n ELSE Len(s))
  ELSE SubSeq(s, 1, IF Len(s) + n > 0 THEN Len(s) + n ELSE 0)

\* result.get(key, '')
Get(e, key) == IF e[key] = NoField THEN "" ELSE e[key]

\* if title and url
Keeps(e) == Get(e, "title") # "" /\ Get(e, "url") # ""

\* for result in ...: if title and url: results.append({...})
RECURSIVE Collect(_, _)
Collect(rest, results) ==
  IF rest = <<>> THEN results
  ELSE LET e == Head(rest)
       IN  Collect(Tail(rest),
             IF Keeps(e)
             THEN Append(results, [title |-> Get(e, "title"),
                                   url |-> Get(e, "url"),
                                   snippet |-> Get(e, "content")])
             ELSE results)

\* The markup of a document of each kind.
Doc(kind, results) ==
  [kind |-> kind, results |-> IF kind = "results" THEN results ELSE <<>>]

\* From the markup to the returned list: no <pre> block falls through to
\* "return []", a json.loads failure is caught, data.get('results', []).
Parse(doc, max_results) ==
  IF doc.kind \in {"no_pre", "bad_json"} THEN <<>>
  ELSE Collect(PySlice(doc.results, max_results), <<>>)

SampleResults == <<[title |-> "T", url |-> "u", content |-> "c"]>>

\* ------------------------------------------------------ BrowserTool.navigate
\* raise Exception(f"Failed to navigate to {url}: {str(e)}")
NavigateExcept(c) ==
  Raise([c EXCEPT !.names = @ \cup {Top(c.stack).url}], "NavFault")

\* raise Exception(f"Element '{wait_for_element}' not found on page after ...")
\* inside the outer try
WaitExcept(c) ==
  NavigateExcept([c EXCEPT !.names = @ \cup {Selector}])

NavigateGoto(c) ==
  IF ~c.pg
  THEN NavigateExcept([c EXCEPT !.response = NoPage])    \* AttributeError
  ELSE Suspend(c, "N_goto")

\* The timeout left as the number of seconds.
MillisUnconverted(wait_time) == wait_time

\* timeout=wait_time * 1000
Millis(wait_time) == wait_time * 1000

NavigateWait(c) ==
  IF Top(c.stack).wait
  THEN IF ~c.pg
       THEN WaitExcept([c EXCEPT !.waited = "no_page"])  \* AttributeError
       ELSE Suspend([c EXCEPT !.timeout = Millis(Top(c.stack).wait_time)],
                    "N_wait")
  ELSE Return(c)

\* A status of 400 or more taken for a failed load.
LoadFaultsOnStatus(r) == r = Raised \/ r = NullResponse \/ r >= 400

\* page.goto raised, or "if response is None: raise"
LoadFaults(r) == r = Raised \/ r = NullResponse

\* ----------------------------------------------- BrowserTool.extract_content
\* str.split() taking the blank alone for whitespace.
IsSpaceBlankOnly(ch) == ch = " "

\* what str.split() takes for whitespace
IsSpace(ch) == ch \in Whitespace

\* text.split(): the maximal runs of non-whitespace characters, in order
RECURSIVE Split(_, _, _)
Split(rest, word, words) ==
  IF rest = <<>>
  THEN IF word = <<>> THEN words ELSE Append(words, word)
  ELSE IF IsSpace(Head(rest))
       THEN Split(Tail(rest), <<>>,
                  IF word = <<>> THEN words ELSE Append(words, word))
       ELSE Split(Tail(rest), Append(word, Head(rest)), words)

\* ' '.join(words)
RECURSIVE Join(_)
Join(words) ==
  IF words = <<>> THEN <<>>
  ELSE IF Len(words) = 1 THEN words[1]
  ELSE words[1] \o <<" ">> \o Join(Tail(words))

\* clean_text = ' '.join(text.split())
Normalize(text) == Join(Split(text, <<>>, <<>>))

\* What page.content() gives the call: the document its own navigate() loaded,
\* or another one.
Content(c) == IF c.shown = c.me THEN "loaded" ELSE "other"

ExtractPageCheck(c) ==
  IF ~c.pg
  THEN Raise(c, "NoPageFault")
  ELSE Suspend(c, "E_content")

\* The "if url:" branch left out: the markup is read without navigating.
ExtractAfterSetupSkipsNavigate(c) == ExtractPageCheck(c)

\* if url: await self.navigate(url, wait_for_element)
ExtractAfterSetup(c) ==
  LET f == Top(c.stack)
  IN  IF f.url # NoUrl
      THEN CallMethod(c, Frame("navigate", f.url, f.wait))
      ELSE ExtractPageCheck(c)

\* ----------------------------------------------------- BrowserTool.summarize
\* len(text) > 4000 with the bound taken inclusive.
TooLongInclusive(text) == Len(text) >= Limit

\* if len(text) > 4000
TooLong(text) == Len(text) > Limit

\* text = text[:4000] + "..."
Truncate(text) ==
  IF TooLong(text) THEN SubSeq(text, 1, Limit) \o Marker ELSE text

\* prompt = f"Summarize the following text concisely:\n\n{text}\n\nSummary:"
Prompt(text) == <<Prefix>> \o Truncate(text) \o <<Suffix>>

\* "if not self.llm" reads the attribute: an AttributeError when there is none.
SummarizeEnter(c) ==
  CASE c.llm = "undefined" -> Raise(c, "AttributeFault")
    [] c.llm = "None" -> Raise(c, "ConfigFault")
    [] c.llm = "engine" -> Suspend(c, "M_run")

\* ------------------------------------------------------------- calls, returns
\* Entering a method of BrowserTool: every method but close() begins with
\* "await self._setup_browser()".
CallMethod(c, f) ==
  LET d == [c EXCEPT !.stack = Append(@, f)]
  IN  IF f.fn = "close"
      THEN CloseEnter(d)
      ELSE IF f.fn = "summarize"
      THEN SummarizeEnter(d)
      ELSE SetupEnter([d EXCEPT
             !.stack = Append(@, Frame("_setup_browser", NoUrl, FALSE)),
             !.sinceClose = FALSE,
             !.after = @ \/ c.sinceClose,
             !.setupRet = IF c.sinceClose THEN "none" ELSE @])

Finish(c) ==
  [c EXCEPT !.stack = <<c.stack[1]>>, !.pc = "done", !.outcome = "returned"]

\* navigate() has returned to a method that goes on.
Forget(c) ==
  [c EXCEPT !.response = NotIssued, !.waited = "none", !.timeout = 0]

\* The innermost frame returns normally to its caller.
Return(c) ==
  LET callee == Top(c.stack).fn
      d == [c EXCEPT !.stack = Pop(@)]
      caller == Top(d.stack).fn
  IN  CASE callee = "_setup_browser" /\ caller = "web_search" -> WebSearchGoto(d)
        [] callee = "_setup_browser" /\ caller = "navigate" -> NavigateGoto(d)
        [] callee = "_setup_browser" /\ caller = "extract_content" ->
             ExtractAfterSetup(d)
        [] callee = "navigate" /\ caller = "extract_content" ->
             ExtractPageCheck(Forget(d))
        [] callee = "navigate" /\ caller = "main.get_page_content" ->
             CallMethod(Forget(d), Frame("extract_content", NoUrl, FALSE))
        [] callee = "close" /\ caller = "main.close_browser" ->
             Finish([d EXCEPT !.gi = NoInst, !.sinceClose = TRUE])
        [] OTHER -> Finish(d)

\* ------------------------------------------------------------------- Init
\* The process after start-up: no BrowserTool object, no tool call.
Session0 ==
  /\ _browser_tool_instance = NoInst
  /\ created = 0
  /\ calls = 0
  /\ playwright = [i \in Insts |-> FALSE]
  /\ browser = [i \in Insts |-> FALSE]
  /\ page = [i \in Insts |-> FALSE]
  /\ _initializing = [i \in Insts |-> FALSE]
  /\ self = [t \in Tasks |-> NoInst]
  /\ stack = [t \in Tasks |-> <<>>]
  /\ pc = [t \in Tasks |-> "idle"]
  /\ outcome = [t \in Tasks |-> "none"]
  /\ ret = [t \in Tasks |-> <<>>]
  /\ starts = [i \in Insts |-> 0]
  /\ launches = [i \in Insts |-> 0]
  /\ loaded = [i \in Insts |-> FALSE]
  /\ sinceClose = [i \in Insts |-> FALSE]
  /\ held = [t \in Tasks |-> {}]
  /\ released = [t \in Tasks |-> <<>>]
  /\ setupRet = [t \in Tasks |-> "none"]
  /\ after = [t \in Tasks |-> FALSE]
  /\ extFail = [t \in Tasks |-> FALSE]
  /\ llm = [i \in Insts |-> "undefined"]
  /\ response = [t \in Tasks |-> NotIssued]
  /\ waited = [t \in Tasks |-> "none"]
  /\ timeout = [t \in Tasks |-> 0]
  /\ names = [t \in Tasks |-> {}]
  /\ shown = [i \in Insts |-> 0]

NoArg == [op |-> "none"]
NoResult == [done |-> FALSE, value |-> <<>>]
Result(v) == [done |-> TRUE, value |-> v]

Init == Session0 /\ LLM = "unset" /\ arg = NoArg /\ result = NoResult

\* ------------------------------------------------------- main.py tool calls
\* Tasks are anonymous: a new tool call runs as the first task that is free.
Free(t) ==
  /\ calls < MaxCalls
  /\ pc[t] \in {"idle", "done"}
  /\ \A u \in Tasks : u < t => pc[u] \notin {"idle", "done"}

\* get_browser_tool(): the global object, constructed first when there is none.
CanGet == _browser_tool_instance # NoInst \/ created < MaxInst

get_browser_tool ==
  IF _browser_tool_instance = NoInst THEN created + 1 ELSE _browser_tool_instance

Fresh(t, i) ==
  [Cfg(t, i) EXCEPT !.gi = i,
                    !.llm = IF _browser_tool_instance = NoInst
                            THEN Construct(LLM) ELSE @,
                    !.stack = <<>>, !.pc = "run", !.outcome = "none",
                    !.ret = <<>>, !.held = {}, !.released = <<>>,
                    !.setupRet = "none", !.after = FALSE,
                    !.extFail = FALSE, !.response = NotIssued,
                    !.waited = "none", !.timeout = 0, !.names = {},
                    !.shown = IF @ = t THEN 0 ELSE @]

Begin(t, tool, f) ==
  /\ Free(t)
  /\ CanGet
  /\ LET i == get_browser_tool
     IN  /\ Apply(t, i, CallMethod([Fresh(t, i) EXCEPT
                 !.stack = <<[f EXCEPT !.fn = tool]>>], f))
         /\ created' = IF _browser_tool_instance = NoInst THEN created + 1
                       ELSE created
  /\ calls' = calls + 1

CallWebSearch(t) ==
  Begin(t, "main.web_search", Frame("web_search", NoUrl, FALSE))

CallNavigate(t) ==
  \E u \in Urls, w \in BOOLEAN :
    Begin(t, "main.navigate", Frame("navigate", u, w))

\* navigate with a selector and a wait_time of its own
CallNavigateTimed(t) ==
  \E u \in Urls, wt \in WaitTimes \ {DefaultWait} :
    Begin(t, "main.navigate",
          [Frame("navigate", u, TRUE) EXCEPT !.wait_time = wt])

CallExtractContent(t) ==
  \E u \in Urls \cup {NoUrl}, w \in BOOLEAN :
    Begin(t, "main.extract_content", Frame("extract_content", u, w))

CallGetPageContent(t) ==
  \E u \in Urls :
    Begin(t, "main.get_page_content", Frame("navigate", u, FALSE))

CallSummarize(t) ==
  Begin(t, "main.summarize", Frame("summarize", NoUrl, FALSE))

\* close_browser() -> cleanup_browser(): closes the global object, if any.
CallCloseBrowser(t) ==
  /\ Free(t)
  /\ calls' = calls + 1
  /\ created' = created
  /\ IF _browser_tool_instance = NoInst
     THEN /\ self' = Upd(self, t, NoInst, NoInst)
          /\ stack' = Upd(stack, t,
                          <<Frame("main.close_browser", NoUrl, FALSE)>>, <<>>)
          /\ pc' = Upd(pc, t, "done", "idle")
          /\ outcome' = Upd(outcome, t, "returned", "none")
          /\ ret' = Upd(ret, t, <<>>, <<>>)
          /\ held' = Upd(held, t, {}, {})
          /\ released' = Upd(released, t, <<>>, <<>>)
          /\ setupRet' = Upd(setupRet, t, "none", "none")
          /\ after' = Upd(after, t, FALSE, FALSE)
          /\ extFail' = Upd(extFail, t, FALSE, FALSE)
          /\ response' = Upd(response, t, NotIssued, NotIssued)
          /\ waited' = Upd(waited, t, "none", "none")
          /\ timeout' = Upd(timeout, t, 0, 0)
          /\ names' = Upd(names, t, {}, {})
          /\ shown' = [j \in Insts |-> IF Gone(shown[j], 0) \/ shown[j] = t
                                        THEN 0 ELSE shown[j]]
          /\ UNCHANGED <<LLM, _browser_tool_instance, playwright, browser, page,
                         _initializing, llm, starts, launches, loaded,
                         sinceClose, arg, result>>
     ELSE LET i == _browser_tool_instance
          IN  Apply(t, i, CallMethod([Fresh(t, i) EXCEPT
                !.stack = <<Frame("main.close_browser", NoUrl, FALSE)>>],
                Frame("close", NoUrl, FALSE)))

\* ------------------------------------------- awaited operations returning
At(t, label) == pc[t] = label

Failed(c) == [c EXCEPT !.extFail = TRUE]

Step(t, c) == Apply(t, self[t], c) /\ UNCHANGED <<created, calls>>

\* self.playwright = await async_playwright().start()
StartReturns(t) ==
  /\ At(t, "S_start")
  /\ \E ok \in BOOLEAN :
       LET c == Cfg(t, self[t])
       IN  Step(t, IF ok
                   THEN SetupBrowser([c EXCEPT !.pw = TRUE])
                   ELSE SetupFinally(Failed(c), FALSE))

\* self.browser = await self.playwright.chromium.launch(...)
LaunchReturns(t) ==
  /\ At(t, "S_launch")
  /\ \E ok \in BOOLEAN :
       LET c == Cfg(t, self[t])
       IN  Step(t, IF ok
                   THEN SetupPage([c EXCEPT !.br = TRUE])
                   ELSE SetupFinally(Failed(c), FALSE))

\* context = await self.browser.new_context(...)
NewContextReturns(t) ==
  /\ At(t, "S_context")
  /\ \E ok \in BOOLEAN :
       LET c == Cfg(t, self[t])
       IN  Step(t, IF ok THEN Suspend(c, "S_newpage")
                   ELSE SetupFinally(Failed(c), FALSE))

\* self.page = await context.new_page()
NewPageReturns(t) ==
  /\ At(t, "S_newpage")
  /\ \E ok \in BOOLEAN :
       LET c == Cfg(t, self[t])
       IN  Step(t, IF ok
                   THEN Suspend([c EXCEPT !.pg = TRUE, !.shown = 0],
                                "S_script")
                   ELSE SetupFinally(Failed(c), FALSE))

\* await self.page.add_init_script(...)
InitScriptReturns(t) ==
  /\ At(t, "S_script")
  /\ \E ok \in BOOLEAN :
       LET c == Cfg(t, self[t])
       IN  Step(t, IF ok THEN SetupFinally(c, TRUE)
                   ELSE SetupFinally(Failed(c), FALSE))

\* response = await self.page.goto(search_url, ...)
SearchGotoReturns(t) ==
  /\ At(t, "W_goto")
  /\ \E r \in GotoOutcomes :
       LET c == Cfg(t, self[t])
       IN  Step(t, IF r = Raised \/ r = NullResponse
                   THEN Return([Failed(c) EXCEPT !.ret = <<>>])
                   ELSE IF r = 200
                        THEN WebSearchContent([c EXCEPT !.loaded = TRUE,
                                                        !.shown = 0])
                        ELSE Return([c EXCEPT !.ret = <<>>, !.loaded = TRUE,
                                              !.shown = 0]))

\* content = await self.page.content(), then the parse
SearchContentReturns(t) ==
  /\ At(t, "W_content")
  /\ \E ok \in BOOLEAN, body \in Bodies :
       LET c == Cfg(t, self[t])
       IN  Step(t, IF ok
                   THEN Return([c EXCEPT !.ret =
                          Parse(Doc(body, SampleResults), DefaultMax)])
                   ELSE Return([c EXCEPT !.ret = <<>>, !.loaded = TRUE]))

\* response = await self.page.goto(url, ...)
NavigateGotoReturns(t) ==
  /\ At(t, "N_goto")
  /\ \E r \in GotoOutcomes :
       LET c == Cfg(t, self[t])
       IN  Step(t, IF LoadFaults(r)
                   THEN NavigateExcept([Failed(c) EXCEPT !.response = r])
                   ELSE NavigateWait([c EXCEPT !.response = r,
                                               !.loaded = TRUE, !.shown = t]))

\* await self.page.wait_for_selector(...)
WaitReturns(t) ==
  /\ At(t, "N_wait")
  /\ \E ok \in BOOLEAN :
       LET c == Cfg(t, self[t])
       IN  Step(t, IF ok THEN Return([c EXCEPT !.waited = "found"])
                   ELSE WaitExcept([Failed(c) EXCEPT !.waited = "failed"]))

\* content = await self.page.content() in extract_content
ExtractContentReturns(t) ==
  /\ At(t, "E_content")
  /\ \E ok \in BOOLEAN :
       LET c == Cfg(t, self[t])
       IN  Step(t, IF ok THEN Return([c EXCEPT !.ret = <<Content(c)>>])
                   ELSE Raise(Failed(c), "PageFault"))

\* await self.page.close()
PageCloseReturns(t) ==
  /\ At(t, "C_page")
  /\ \E ok \in BOOLEAN :
       LET c == Cfg(t, self[t])
       IN  Step(t, IF ok THEN CloseBrowser([c EXCEPT !.pg = FALSE])
                   ELSE CloseExcept(Failed(c)))

\* await self.browser.close()
BrowserCloseReturns(t) ==
  /\ At(t, "C_browser")
  /\ \E ok \in BOOLEAN :
       LET c == Cfg(t, self[t])
       IN  Step(t, IF ok THEN CloseStop([c EXCEPT !.br = FALSE])
                   ELSE CloseExcept(Failed(c)))

\* await self.playwright.stop()
StopReturns(t) ==
  /\ At(t, "C_stop")
  /\ \E ok \in BOOLEAN :
       LET c == Cfg(t, self[t])
       IN  Step(t, IF ok THEN Return([c EXCEPT !.pw = FALSE])
                   ELSE CloseExcept(Failed(c)))

\* output = await loop.run_in_executor(None, lambda: self.llm(...))
SummarizeReturns(t) ==
  /\ At(t, "M_run")
  /\ \E ok \in BOOLEAN :
       LET c == Cfg(t, self[t])
       IN  Step(t, IF ok THEN Return([c EXCEPT !.ret = <<"summary">>])
                   ELSE Raise(Failed(c), "SummaryFault"))

Resume(t) ==
  \/ StartReturns(t) \/ LaunchReturns(t) \/ NewContextReturns(t)
  \/ NewPageReturns(t) \/ InitScriptReturns(t)
  \/ SearchGotoReturns(t) \/ SearchContentReturns(t)
  \/ NavigateGotoReturns(t) \/ WaitReturns(t) \/ ExtractContentReturns(t)
  \/ PageCloseReturns(t) \/ BrowserCloseReturns(t) \/ StopReturns(t)

Call(t) ==
  \/ CallWebSearch(t) \/ CallNavigate(t) \/ CallExtractContent(t)
  \/ CallGetPageContent(t) \/ CallCloseBrowser(t)

Next == \E t \in Tasks : Call(t) \/ Resume(t)

Spec == Init /\ [][Next]_vars

\* Every awaited browser operation completes or times out, and the event loop
\* resumes the task that awaits it.  Runs of LiveCalls tool calls.
NextLive ==
  \E t \in Tasks : (calls < LiveCalls /\ Call(t)) \/ Resume(t)

FairSpec ==
  Init /\ [][NextLive]_vars /\ \A t \in Tasks : WF_vars(Resume(t))

\* Runs of LlmCalls calls of all six tools, under each model-path
\* configuration and with wait times other than the default.
InitLlm == Session0 /\ LLM \in ModelPaths /\ arg = NoArg /\ result = NoResult

NextLlm ==
  \E t \in Tasks :
    \/ calls < LlmCalls /\ CallWebSearch(t)
    \/ calls < LlmCalls /\ CallNavigate(t)
    \/ calls < LlmCalls /\ CallNavigateTimed(t)
    \/ calls < LlmCalls /\ CallExtractContent(t)
    \/ calls < LlmCalls /\ CallGetPageContent(t)
    \/ calls < LlmCalls /\ CallCloseBrowser(t)
    \/ calls < LlmCalls /\ CallSummarize(t)
    \/ Resume(t) \/ SummarizeReturns(t)

LlmSpec == InitLlm /\ [][NextLlm]_vars

\* ------------------------------------------------ the pure steps on their own
RECURSIVE Lists(_, _)
Lists(S, n) ==
  IF n = 0 THEN {<<>>}
  ELSE LET shorter == Lists(S, n - 1)
       IN  shorter \cup {Append(l, x) : l \in {m \in shorter : Len(m) = n - 1},
                                         x \in S}

MaxResultsRange == (0 - MaxEntries - 1)..(MaxEntries + 1)

\* A text of n characters, no two neighbours alike.
Alphabet == <<"a", "b", "c", "d", "e", "f", "g">>
Text(n) == [k \in 1..n |-> Alphabet[(k % 7) + 1]]
TextLens == (0..Slack) \cup ((Limit - Slack)..(Limit + Slack))

Inputs ==
  {[op |-> "parse", doc |-> Doc(kind, results), max_results |-> n] :
     kind \in Bodies \ {"results"}, results \in {<<>>}, n \in MaxResultsRange}
  \cup
  {[op |-> "parse", doc |-> Doc("results", results), max_results |-> n] :
     results \in Lists(Entries, MaxEntries), n \in MaxResultsRange}
  \cup {[op |-> "summarize", text |-> Text(n)] : n \in TextLens}
  \cup {[op |-> "normalize", text |-> text] : text \in Lists(Chars, MaxLen)}

InitPure ==
  Session0 /\ LLM = "unset" /\ arg \in Inputs /\ result = NoResult

\* web_search from the markup on
ParseStep ==
  /\ arg.op = "parse" /\ ~result.done
  /\ result' = Result(Parse(arg.doc, arg.max_results))
  /\ UNCHANGED <<sessionVars, arg>>

\* summarize up to the prompt it dispatches
PromptStep ==
  /\ arg.op = "summarize" /\ ~result.done
  /\ result' = Result(Prompt(arg.text))
  /\ UNCHANGED <<sessionVars, arg>>

\* extract_content from the extracted text on
NormalizeStep ==
  /\ arg.op = "normalize" /\ ~result.done
  /\ result' = Result(Normalize(arg.text))
  /\ UNCHANGED <<sessionVars, arg>>

NextPure == ParseStep \/ PromptStep \/ NormalizeStep

PureSpec == InitPure /\ [][NextPure]_vars

\* ------------------------------------------------------------------ claims
SetupLabels == {"S_start", "S_launch", "S_context", "S_newpage", "S_script"}
CloseLabels == {"C_page", "C_browser", "C_stop"}

Done(t) == pc[t] = "done"
ToolOf(t) == stack[t][1].fn

\* C1: every _setup_browser() call that returns without raising leaves the
\* driver, browser and page handles all present, also for a caller that enters
\* while _initializing is set.
C1_SetupReturnsReady ==
  \A t \in Tasks : setupRet[t] # "unready"

\* C2: within one initialization of a session (from _initializing being set to
\* its being cleared) at most one driver start and at most one browser launch
\* are issued, whatever calls interleave, and at most one call is inside the
\* initialization.
C2_OneStartOneLaunch ==
  \A i \in Insts :
    /\ starts[i] <= 1 /\ launches[i] <= 1
    /\ Cardinality({t \in Tasks : self[t] = i /\ pc[t] \in SetupLabels}) <= 1

\* A second caller went through the guard while the first one, having issued
\* its start and its launch, is still initializing.
C2_Witness ==
  \E t1, t2 \in Tasks :
    /\ t1 # t2 /\ self[t1] = self[t2]
    /\ pc[t1] = "S_launch" /\ _initializing[self[t1]]
    /\ Done(t2) /\ setupRet[t2] = "unready"
    /\ starts[self[t1]] = 1 /\ launches[self[t1]] = 1

\* C3: in every reachable state the handles are nested: a page only with a
\* browser, a browser only with a driver.
C3_HandlesNested ==
  \A i \in Insts : (page[i] => browser[i]) /\ (browser[i] => playwright[i])

\* C4: close() never raises, and when it returns the page, browser and driver
\* handles of its session are all absent.
ClosingStep(t) ==
  /\ pc[t] \in CloseLabels \/ calls' # calls
  /\ pc'[t] = "done"
  /\ ToolOf(t)' = "main.close_browser"
  /\ self'[t] # NoInst

C4_CloseLeavesEmpty ==
  [][\A t \in Tasks :
       ClosingStep(t) =>
         /\ outcome'[t] = "returned"
         /\ ~page'[self'[t]] /\ ~browser'[self'[t]] /\ ~playwright'[self'[t]]
    ]_vars

\* C5: the first navigate, web_search or extract_content call entered after a
\* close() has returned finds the driver, browser and page handles all present
\* once its _setup_browser() has returned, and succeeds, provided no browser
\* operation it issues fails.
C5_ReinitAfterClose ==
  \A t \in Tasks :
    (after[t] /\ Done(t) /\ ~extFail[t]) =>
      (outcome[t] = "returned" /\ setupRet[t] = "ready")

\* C6: a failure of driver start, browser launch, context or page creation
\* inside _setup_browser() surfaces as the one initialization fault with
\* _initializing cleared, so the guard does not stop a later call; and whenever
\* _initializing becomes true it eventually becomes false (the flag is false
\* again and again: _initializing ~> ~_initializing).
FailedSetupStep ==
  \A t \in Tasks :
    (pc[t] \in SetupLabels /\ extFail'[t]) =>
      (outcome'[t] = "InitFault" /\ ~_initializing'[self[t]])

C6_FailedSetupClearsFlag ==
  /\ [][FailedSetupStep]_vars
  /\ \A i \in Insts : []<>~_initializing[i]

\* The safety half of C6 alone, for runs of MaxCalls calls.
FailedSetupAlwaysClearsFlag == [][FailedSetupStep]_vars

\* The browser was launched, a later step of the initialization failed, the
\* call ended in the initialization fault and the flag is clear.
C6_Witness ==
  \E t \in Tasks :
    /\ Done(t) /\ outcome[t] = "InitFault" /\ extFail[t]
    /\ browser[self[t]] /\ ~_initializing[self[t]]

\* C7: web_search() never raises to its caller, whatever the outcome of the
\* initialization, of the page load and of the parse.
C7_WebSearchNeverRaises ==
  \A t \in Tasks :
    (Done(t) /\ ToolOf(t) = "main.web_search") => outcome[t] = "returned"

\* C8: at every moment only the global instance holds browser handles or is
\* acquiring them: no session out of the global's reach has a live handle or an
\* initialization under way.
C8_OnlyGlobalHoldsHandles ==
  \A i \in Insts :
    i # _browser_tool_instance =>
      /\ ~playwright[i] /\ ~browser[i] /\ ~page[i]
      /\ ~\E t \in Tasks : self[t] = i /\ pc[t] \in SetupLabels

\* C9: close() invokes the release of every handle present when it starts,
\* once each, in the order page, browser, driver.
InOrder(S) ==
  SelectSeq(<<"page", "browser", "playwright">>, LAMBDA h : h \in S)

C9_ReleasesAllHeldInOrder ==
  \A t \in Tasks :
    (Done(t) /\ ToolOf(t) = "main.close_browser") =>
      released[t] = InOrder(held[t])

\* C10: extract_content() with no URL on a session on which no page was ever
\* loaded does not return content.
C10_NoPageLoadedFaults ==
  \A t \in Tasks :
    (/\ Done(t) /\ ToolOf(t) = "main.extract_content"
     /\ stack[t][1].url = NoUrl
     /\ ~loaded[self[t]]) => outcome[t] # "returned"

\* C11: under every model-path configuration the constructor completes and
\* leaves llm defined: the loaded engine when the path exists and loads, None
\* in the three other cases.
C11_ConstructorDefinesLlm ==
  \A i \in Insts :
    i <= created => llm[i] = IF LLM = "loadable" THEN "engine" ELSE "None"

\* C12: summarize() on a session with no inference engine raises the
\* configuration fault and leaves the handles and the _initializing flag as
\* they were; no initialization or navigation is started.
SummarizeStep(t) ==
  /\ calls' # calls /\ Free(t)
  /\ stack'[t][1].fn = "main.summarize"

C12_SummarizeWithoutEngine ==
  [][\A t \in Tasks :
       (SummarizeStep(t) /\ llm'[self'[t]] # "engine") =>
         /\ pc'[t] = "done" /\ outcome'[t] = "ConfigFault"
         /\ UNCHANGED <<playwright, browser, page, _initializing,
                        starts, launches, loaded>>
    ]_vars

\* C13: every fault raised by navigate(url, ...) names the target url in its
\* message, whichever step failed: the initialization, the page load, a null
\* response or the element wait.
C13_NavigateFaultsNameUrl ==
  \A t \in Tasks :
    (Done(t) /\ ToolOf(t) = "main.navigate" /\ outcome[t] # "returned") =>
      stack[t][1].url \in names[t]

\* C14: navigate() on an initialized session (the page handle is there when
\* the load and the wait are issued) raises exactly when the page load raised,
\* the load gave a null response, or a requested element wait failed; a status
\* of 400 or more is no fault.
OnInitialized(t) ==
  response[t] \in GotoOutcomes /\ waited[t] # "no_page"

C14_NavigateFaultsIff ==
  \A t \in Tasks :
    (Done(t) /\ ToolOf(t) = "main.navigate" /\ OnInitialized(t)) =>
      (outcome[t] # "returned" <=>
         (response[t] = Raised \/ response[t] = NullResponse
          \/ (stack[t][1].wait /\ waited[t] = "failed")))

\* navigate() returned normally on a response with status 404.
C14_Witness ==
  \E t \in Tasks :
    /\ Done(t) /\ ToolOf(t) = "main.navigate" /\ OnInitialized(t)
    /\ response[t] >= 400 /\ outcome[t] = "returned"

\* C15: the element wait is issued only after the load gave a non-null
\* response, only when a selector was given, and with a timeout of
\* wait_time * 1000 ms; when it fails navigate() raises a fault that names the
\* selector; with no selector no wait is performed.
C15_ElementWait ==
  \A t \in Tasks :
    /\ pc[t] = "N_wait" =>
         /\ response[t] \in Statuses
         /\ Top(stack[t]).fn = "navigate" /\ Top(stack[t]).wait
         /\ timeout[t] = Top(stack[t]).wait_time * 1000
    /\ waited[t] \in {"found", "failed"} =>
         /\ response[t] \in Statuses
         /\ timeout[t] \in {w * 1000 : w \in WaitTimes}
    /\ (Done(t) /\ waited[t] = "failed") =>
         /\ outcome[t] = "NavFault" /\ Selector \in names[t]
    /\ (Done(t) /\ ToolOf(t) = "main.navigate") =>
         /\ ~stack[t][1].wait => (waited[t] = "none" /\ timeout[t] = 0)
         /\ waited[t] \in {"found", "failed"} =>
              timeout[t] = stack[t][1].wait_time * 1000

\* navigate(url, s, 1) waited for s with a timeout of 1000 ms, the element did
\* not appear and the call raised.
C15_Witness ==
  \E t \in Tasks :
    /\ Done(t) /\ ToolOf(t) = "main.navigate"
    /\ stack[t][1].wait /\ stack[t][1].wait_time = 1
    /\ waited[t] = "failed" /\ timeout[t] = 1000
    /\ outcome[t] = "NavFault" /\ Selector \in names[t]

\* C18: the content get_page_content(url) returns is the content of the
\* document its own navigation loaded, whatever other tool calls interleave.
C18_ContentOfOwnNavigation ==
  \A t \in Tasks :
    (Done(t) /\ ToolOf(t) = "main.get_page_content"
     /\ outcome[t] = "returned") => ret[t] = <<"loaded">>

\* C16: for every backend result list and every integer max_results,
\* web_search returns at most max_results entries (none when max_results is
\* not positive), in the relative order of the backend's results array.
Parsed == arg.op = "parse" /\ result.done

AsResult(e) ==
  [title |-> Get(e, "title"), url |-> Get(e, "url"),
   snippet |-> Get(e, "content")]

\* the entries of in at the indices of pick, in order
Picked(in, pick) ==
  LET ix == SelectSeq([k \in 1..Len(in) |-> k], LAMBDA k : k \in pick)
  IN  [j \in 1..Len(ix) |-> in[ix[j]]]

IsSubsequence(out, in) ==
  \E pick \in SUBSET (1..Len(in)) : out = Picked(in, pick)

Backend == [k \in 1..Len(arg.doc.results) |-> AsResult(arg.doc.results[k])]

C16_AtMostMaxInOrder ==
  Parsed =>
    /\ Len(result.value)
         <= (IF arg.max_results > 0 THEN arg.max_results ELSE 0)
    /\ IsSubsequence(result.value, Backend)

\* C17: on a document whose <pre> block holds a JSON object with a results
\* array, web_search returns exactly those of the first max_results backend
\* entries that have a non-empty title and a non-empty url, each as {title,
\* url, snippet = its content, or "" when it has none}; so every returned
\* result has a non-empty title and a non-empty url.
First(s, n) ==
  SubSeq(s, 1, IF n <= 0 THEN 0 ELSE IF n < Len(s) THEN n ELSE Len(s))

Complete(e) ==
  e.title \notin {NoField, ""} /\ e.url \notin {NoField, ""}

Expected(results, n) ==
  LET kept == SelectSeq(First(results, n), Complete)
  IN  [k \in 1..Len(kept) |->
         [title |-> kept[k].title, url |-> kept[k].url,
          snippet |-> IF kept[k].content = NoField THEN ""
                      ELSE kept[k].content]]

C17_ExactlyTheCompleteEntries ==
  (Parsed /\ arg.doc.kind = "results") =>
    /\ result.value = Expected(arg.doc.results, arg.max_results)
    /\ \A k \in 1..Len(result.value) :
         result.value[k].title # "" /\ result.value[k].url # ""

\* C19: the text summarize() embeds in the prompt is the text itself when it
\* has at most 4000 characters, and its first 4000 characters followed by
\* "..." when it has more; it is never longer than 4000 characters plus the
\* marker.
Embedded(prompt) == SubSeq(prompt, 2, Len(prompt) - 1)

C19_TruncatesAt4000 ==
  (arg.op = "summarize" /\ result.done) =>
    LET text == arg.text
        e == Embedded(result.value)
    IN  /\ result.value[1] = Prefix
        /\ result.value[Len(result.value)] = Suffix
        /\ Len(text) <= 4000 => e = text
        /\ Len(text) > 4000 =>
             /\ Len(e) = 4003
             /\ \A k \in 1..4000 : e[k] = text[k]
             /\ <<e[4001], e[4002], e[4003]>> = <<".", ".", ".">>
        /\ Len(e) <= 4003

\* A text of 4001 characters went out as 4000 characters and the marker, and
\* one of exactly 4000 characters went out whole.
C19_Witness ==
  /\ arg.op = "summarize" /\ result.done
  /\ Len(arg.text) = 4001 /\ Len(result.value) = 4005
  /\ result.value[4002] = "."

\* C20: cleaning the whitespace of an already cleaned text gives the same
\* text, and a cleaned text has no whitespace at its start or end and no two
\* whitespace characters in a row.
C20_NormalizeIdempotent ==
  (arg.op = "normalize" /\ result.done) =>
    LET out == result.value
    IN  /\ Normalize(out) = out
        /\ out # <<>> =>
             out[1] \notin Whitespace /\ out[Len(out)] \notin Whitespace
        /\ \A k \in 1..(Len(out) - 1) :
             ~(out[k] \in Whitespace /\ out[k + 1] \in Whitespace)

\* A text with a run of two different whitespace characters came out with one
\* blank in its place.
C20_Witness ==
  /\ arg.op = "normalize" /\ result.done
  /\ arg.text = <<"a", "\n", " ", "b">>
  /\ result.value = <<"a", " ", "b">>

\* C21: _setup_browser() creates a handle only when that handle is absent and
\* leaves every present handle as it is, and a _setup_browser() call creates
\* exactly the handles that are missing: a tool call that enters it issues the
\* creation of the first handle that is absent, and each creation that
\* succeeds is followed by the creation of the next handle that is absent.
EntersSetup(t) ==
  /\ calls' # calls /\ Free(t)
  /\ stack'[t][1].fn \notin {"main.summarize", "main.close_browser"}

\* While a creation is awaited the handle it will be assigned to is absent.
CreatesOnlyAbsent ==
  \A t \in Tasks :
    /\ pc[t] = "S_start" => ~playwright[self[t]]
    /\ pc[t] = "S_launch" => ~browser[self[t]]
    /\ pc[t] \in {"S_context", "S_newpage"} => ~page[self[t]]

\* The step of a call that was inside _setup_browser() removes no handle.
KeepsPresent(t) ==
  (pc[t] \in SetupLabels /\ pc'[t] # pc[t]) =>
    LET i == self[t]
    IN  /\ playwright[i] => playwright'[i]
        /\ browser[i] => browser'[i]
        /\ page[i] => page'[i]

\* The checks come in the order driver, browser, page, each made once: of the
\* handles from place k on, the first absent one is the one being created.
Place(h) == CASE h = "playwright" -> 1 [] h = "browser" -> 2 [] h = "page" -> 3

CreatesNextMissing(t, k) ==
  LET i == self'[t]
      pw == Place("playwright") >= k => playwright'[i]
      br == Place("browser") >= k => browser'[i]
  IN  /\ ~pw => pc'[t] = "S_start"
      /\ (pw /\ ~br) => pc'[t] = "S_launch"
      /\ (pw /\ br /\ ~page'[i]) => pc'[t] = "S_context"

Continues(t) ==
  /\ (pc[t] = "S_start" /\ playwright'[self[t]]) => CreatesNextMissing(t, 2)
  /\ (pc[t] = "S_launch" /\ browser'[self[t]]) => CreatesNextMissing(t, 3)

C21_CreatesExactlyTheMissing ==
  /\ []CreatesOnlyAbsent
  /\ [][\A t \in Tasks :
          /\ KeepsPresent(t)
          /\ EntersSetup(t) => CreatesNextMissing(t, 1)
          /\ Continues(t)
       ]_vars

\* C21 for the calls that find _initializing clear when they enter.
C21_PastTheGuard ==
  /\ []CreatesOnlyAbsent
  /\ [][\A t \in Tasks :
          /\ KeepsPresent(t)
          /\ (EntersSetup(t) /\ ~_initializing[self'[t]]) =>
               CreatesNextMissing(t, 1)
          /\ Continues(t)
       ]_vars

\* C22: extract_content(url, selector) reads the page markup only once its own
\* navigation to url has returned, and when that navigation faults it raises
\* the navigation fault without ever reading the markup; extract_content()
\* without a URL issues no page load and reads the page the session has.
LoadLabels == {"N_goto", "N_wait", "W_goto"}

InExtract(s) == Len(s) >= 2 /\ s[2].fn = "extract_content"

\* The read of the markup is issued by this step of the call.
ReadIssued(t) == pc[t] # "E_content" /\ pc'[t] = "E_content"

NavigatesAsAsked ==
  \A t \in Tasks :
    (InExtract(stack[t]) /\ pc[t] \in LoadLabels) =>
      /\ stack[t][2].url # NoUrl
      /\ Top(stack[t]).fn = "navigate"
      /\ Top(stack[t]).url = stack[t][2].url
      /\ Top(stack[t]).wait = stack[t][2].wait

NoReadAfterFault ==
  \A t \in Tasks :
    (outcome[t] = "NavFault" /\ ToolOf(t) = "main.extract_content") =>
      Done(t) /\ ret[t] = <<>>

NavigatesFirst(t) ==
  (ReadIssued(t) /\ stack'[t][2].url # NoUrl) =>
    /\ pc[t] \in {"N_goto", "N_wait"} /\ InExtract(stack[t])
    /\ ~extFail'[t] /\ loaded'[self[t]]

InheritsFault(t) ==
  (InExtract(stack[t]) /\ pc[t] \in {"N_goto", "N_wait"} /\ extFail'[t]) =>
    pc'[t] = "done" /\ outcome'[t] = "NavFault"

ReadsCurrentPage(t) ==
  (ReadIssued(t) /\ stack'[t][2].url = NoUrl) =>
    /\ InExtract(stack[t]) => pc[t] \notin LoadLabels
    /\ stack'[t][2].fn = "extract_content"
    /\ page'[self'[t]]

C22_NavigatesBeforeReading ==
  /\ [](NavigatesAsAsked /\ NoReadAfterFault)
  /\ [][\A t \in Tasks :
          NavigatesFirst(t) /\ InheritsFault(t) /\ ReadsCurrentPage(t)]_vars

\* extract_content(url, selector) loaded url, the element did not appear, and
\* the call raised the navigation fault with nothing read.
C22_Witness ==
  \E t \in Tasks :
    /\ Done(t) /\ ToolOf(t) = "main.extract_content"
    /\ stack[t][1].url # NoUrl /\ stack[t][1].wait
    /\ response[t] \in Statuses /\ waited[t] = "failed"
    /\ outcome[t] = "NavFault" /\ ret[t] = <<>>

\* C23: in every reachable state _initializing is true exactly when one
\* _setup_browser() call is between setting the flag and its cleanup step, and
\* never more than one is; the flag changes only in a step of the call that
\* owns the initialization, so a caller that returns early through the guard
\* neither sets nor clears it and it is never cleared while the owner runs.
Inside(i) == {t \in Tasks : self[t] = i /\ pc[t] \in SetupLabels}

FlagMarksOwner ==
  \A i \in Insts :
    /\ Cardinality(Inside(i)) <= 1
    /\ _initializing[i] <=> Cardinality(Inside(i)) = 1

OwnerChangesFlag ==
  \A i \in Insts :
    /\ (~_initializing[i] /\ _initializing'[i]) =>
         \E t \in Tasks :
           /\ self'[t] = i /\ pc'[t] \in SetupLabels
           /\ pc[t] \notin SetupLabels
    /\ (_initializing[i] /\ ~_initializing'[i]) =>
         \E t \in Tasks :
           /\ self[t] = i /\ pc[t] \in SetupLabels
           /\ pc'[t] \notin SetupLabels
    /\ \A t \in Inside(i) :
         pc'[t] \in SetupLabels => _initializing'[i]

C23_FlagMarksOwner ==
  /\ []FlagMarksOwner
  /\ [][OwnerChangesFlag]_vars

\* extract_content() returned early through the guard, found no page and
\* raised, and the owner is still creating the page with the flag set.
C23_Witness ==
  \E t1, t2 \in Tasks :
    /\ t1 # t2 /\ self[t1] = self[t2]
    /\ pc[t1] = "S_context" /\ _initializing[self[t1]]
    /\ Done(t2) /\ outcome[t2] = "NoPageFault"

====
